---- MODULE Spec2Model ----
(***************************************************************************)
(* A model of the IMAP viewer's core:                                      *)
(*   - AsyncIMAPClient (src/src/imap_client.py): one IMAP session guarded  *)
(*     by an asyncio.Lock, with its blocking helpers run in worker threads;*)
(*   - the OAuth2 refresh / identity helpers (src/src/token_utils.py) and  *)
(*     the account-level token resolution (src/src/accounts.py).           *)
(*   - the callers of a session (src/test_run.py, src/app.py) and the      *)
(*     MIME decoder EmailParser (src/src/email_parser.py).                 *)
(* Spec is the session machine (SpecFair: with the event loop's            *)
(* scheduling), SpecToken the token refresh machine, SpecIdentity the      *)
(* identity resolution machine, SpecCore the session and the token machine *)
(* side by side, SpecOAuth the XOAUTH2 string, SpecCaller the callers'     *)
(* connect / fetch / close sequence over their sessions, and SpecParser    *)
(* the MIME decoder.                                                       *)
(***************************************************************************)
EXTENDS Integers, Sequences, FiniteSets, TLC

\* ---------------------------------------------------------------- bounds
NumTasks == 2       \* coroutines that issue operations on the session
MaxConns == 2       \* TLS connections the server accepts in one run
MaxMsg   == 2       \* largest mailbox size SEARCH ALL reports
MaxLimit == 2       \* largest limit passed to fetch_latest

None == 0

Tasks  == 1..NumTasks
Limits == 0..MaxLimit

VARIABLES
    ctor_provider,\* the provider argument the session was constructed with
    provider,     \* self.provider (already lower-cased by __init__)
    use_oauth,    \* self.use_oauth
    imap,         \* self._imap: None or the index of a connection in conns
    conns,        \* every connection the session has opened, in order
    locked,       \* self._lock._locked
    waiters,      \* self._lock._waiters (FIFO)
    pc,           \* per task: "idle", "waiting", "running", "returned"
    op,           \* per task: the operation it is in
    last,         \* the frame of the helper that ran last
    everClosed    \* history: close() has logged out a connected session

sessVars == <<ctor_provider, provider, use_oauth, imap, conns, locked, waiters, pc, op, last, everClosed>>

VARIABLES
    environ,      \* os.environ: the client configuration and the refresh tokens
    envFile,      \* the lines of the .env file, as [key, value]
    db,           \* the EmailAccount table, by account id
    tlast,        \* the last token call: its inputs, the response and its result
    ident         \* the last identity call: its input and its result

tokVars == <<environ, envFile, db, tlast>>

VARIABLES
    email,        \* self.email of a session, as code points
    credential,   \* self.credential of a session, as code points
    auth_string   \* the bytes _oauth_string returned; <<>> before it is called

oaVars == <<email, credential, auth_string>>

VARIABLES
    phase,        \* where the caller of the sessions is: "connect", "fetch",
                  \* "close", "done", or "failed" once an operation raised
    clients,      \* per client of the caller: its session (_imap, connections, lock)
    task,         \* per client: the caller's pending operation on it
    fetch_limit   \* the limit the caller passes to fetch_latest

callVars == <<phase, clients, task, fetch_limit>>

VARIABLES
    raw_bytes,    \* the message given to EmailParser.parse: its headers and MIME tree
    parsed        \* what parse returned or raised; NotParsed before the call

parseVars == <<raw_bytes, parsed>>

VARIABLES
    thr           \* per provider: the thread running its refresh call: where it
                  \* is in _update_env_file, the rotated token, the lines it read

VARIABLES
    STATE_STORE,  \* backend/main.py: state -> user_id
    issued,       \* history: the user_id each state was issued for
    exchanges,    \* history: per state, the token exchanges made for it
    accounts,     \* the EmailAccount rows the callbacks created
    workers,      \* per worker thread: the callback request it is handling
    reply         \* the last response a handler sent

backVars == <<STATE_STORE, issued, exchanges, accounts, workers, reply>>

extVars == <<thr, backVars>>

\* the variables of the machines that are not the session, the token calls
\* or the identity calls
auxVars == <<oaVars, callVars, parseVars, extVars>>

\* ------------------------------------------------------- AsyncIMAPClient

RawProviders == {"gmail", "Outlook", "yahoo"}

\* faulty variant: the provider is stored as the caller wrote it
LowerNot(s) == s

\* str.lower() on the provider names a caller passes
Lower(s) ==
    CASE s = "Outlook" -> "outlook"
      [] s = "OUTLOOK" -> "outlook"
      [] s = "Gmail"   -> "gmail"
      [] s = "GMAIL"   -> "gmail"
      [] OTHER         -> s

\* the host chosen by _connect_sync; "none" is the raising else-branch
Host(p) ==
    CASE p = "gmail"   -> "imap.gmail.com"
      [] p = "outlook" -> "outlook.office365.com"
      [] OTHER         -> "none"

\* what the network and the IMAP server may answer while connecting; the
\* fields after the first failing step are never read and are held fixed
ConnectOutcomes ==
    {[tls |-> FALSE, auth |-> FALSE, select |-> "OK"],
     [tls |-> TRUE,  auth |-> FALSE, select |-> "OK"]}
    \cup {[tls |-> TRUE, auth |-> TRUE, select |-> s] : s \in {"OK", "NO", "abort"}}

\* what the server may answer to SEARCH ALL and FETCH (k: the mailbox size)
FetchOutcomes ==
    {[search |-> "NO", k |-> 0, fetch |-> "OK"]}
    \cup {[search |-> "OK", k |-> 0, fetch |-> "OK"]}
    \cup {[search |-> "OK", k |-> n, fetch |-> st] : n \in 1..MaxMsg, st \in {"OK", "NO"}}

\* whether LOGOUT completes
LogoutOutcomes == [logout : BOOLEAN]

\* no connection attempt was made
NoConnect == [tls |-> FALSE, auth |-> FALSE, select |-> ""]

\* the frame a helper starts with
Frame(t, o, limit) ==
    [task |-> t, op |-> o, limit |-> limit, before |-> imap,
     provider |-> provider, use_oauth |-> use_oauth,
     imap |-> imap, conns |-> conns,
     cout |-> NoConnect,
     cmds |-> <<>>, search |-> "", fstatus |-> "", searched |-> <<>>, fetched |-> <<>>,
     raised |-> "none", ret |-> <<>>]

NoFrame ==
    [task |-> 0, op |-> "none", limit |-> 0, before |-> None,
     provider |-> "", use_oauth |-> TRUE,
     imap |-> None, conns |-> <<>>,
     cout |-> NoConnect,
     cmds |-> <<>>, search |-> "", fstatus |-> "", searched |-> <<>>, fetched |-> <<>>,
     raised |-> "none", ret |-> <<>>]

Send(f, c) == [f EXCEPT !.cmds = Append(@, c)]
Raise(f, e) == [f EXCEPT !.raised = e]

\* imaplib.IMAP4_SSL(host): a new connection in state NONAUTH
OpenConn(f) ==
    [Send(f, "OPEN") EXCEPT !.conns = Append(@, [state |-> "NONAUTH", open |-> TRUE])]

SetConnState(f, c, st) == [f EXCEPT !.conns[c].state = st]

\* _connect_sync; a server that already accepted MaxConns connections
\* refuses the next one, which the client sees as a transport failure
ConnectSync(f, out) ==
    IF Host(f.provider) = "none" THEN Raise(f, "unsupported")
    ELSE IF ~out.tls \/ Len(f.conns) >= MaxConns
         THEN Raise(Send([f EXCEPT !.cout = [tls |-> FALSE, auth |-> FALSE,
                                             select |-> "OK"]], "OPEN"), "transport")
    ELSE LET f1 == OpenConn([f EXCEPT !.cout = out])
             c  == Len(f1.conns)
             f2 == Send(f1, IF f.use_oauth THEN "AUTHENTICATE" ELSE "LOGIN")
         IN  IF ~out.auth THEN Raise(f2, "auth")
             ELSE LET f3 == Send(SetConnState(f2, c, "AUTH"), "SELECT")
                  IN  IF out.select = "abort" THEN Raise(f3, "abort")
                      ELSE LET f4 == IF out.select = "OK"
                                     THEN SetConnState(f3, c, "SELECTED")
                                     ELSE f3
                           IN  [f4 EXCEPT !.imap = c, !.ret = <<c>>]

Max(a, b) == IF a > b THEN a ELSE b
Min(a, b) == IF a < b THEN a ELSE b

\* Python's seq[start:] for any integer start
PySliceFrom(seq, start) ==
    LET n  == Len(seq)
        st == IF start < 0 THEN Max(n + start, 0) ELSE Min(start, n)
    IN  SubSeq(seq, st + 1, n)

\* ids[-limit:]
TrailingIds(ids, limit) == PySliceFrom(ids, 0 - limit)

\* the sequence numbers SEARCH ALL lists for a mailbox of k messages
SearchAll(k) == [i \in 1..k |-> i]

\* the server's FETCH response: per message a (header, body) tuple and a ")" item
RECURSIVE MsgData(_)
MsgData(ids) ==
    IF ids = <<>> THEN <<>>
    ELSE <<[tuple |-> TRUE, body |-> Head(ids)], [tuple |-> FALSE, body |-> None]>>
         \o MsgData(Tail(ids))

\* the loop collecting part[1] of every tuple part
RECURSIVE Emails(_)
Emails(parts) ==
    IF parts = <<>> THEN <<>>
    ELSE (IF Head(parts).tuple /\ Head(parts).body # None
          THEN <<Head(parts).body>> ELSE <<>>) \o Emails(Tail(parts))

\* faulty variant: the empty search result is not short-circuited
NoIdsNever(ids) == FALSE

\* "if not ids"
NoIds(ids) == ids = <<>>

\* faulty variant: a reported status is never taken as a failure
NotOKNever(status) == FALSE

\* status != "OK"
NotOK(status) == status # "OK"

\* the part of _fetch_latest_sync after the auto-connect
SearchAndFetch(f, out) ==
    IF f.conns[f.imap].state # "SELECTED" THEN Raise(f, "illegal state")
    ELSE LET f1 == [Send(f, "SEARCH") EXCEPT !.search = out.search]
         IN  IF NotOK(out.search) THEN Raise(f1, "search failed")
             ELSE LET ids == SearchAll(out.k)
                      f2  == [f1 EXCEPT !.searched = ids]
                  IN  IF NoIds(ids) THEN f2
                      ELSE LET sel == TrailingIds(ids, f.limit)
                               f3  == [Send(f2, "FETCH") EXCEPT !.fetched = sel,
                                                                !.fstatus = out.fetch]
                           IN  IF NotOK(out.fetch) THEN Raise(f3, "fetch failed")
                               ELSE [f3 EXCEPT !.ret = Emails(MsgData(sel))]

\* faulty variant: every fetch connects anew
NeedsConnectAlways(f) == TRUE

\* "if self._imap is None"
NeedsConnect(f) == f.imap = None

\* _fetch_latest_sync
FetchLatestSync(f, cout, out) ==
    LET f1 == IF NeedsConnect(f) THEN [ConnectSync(f, cout) EXCEPT !.ret = <<>>] ELSE f
    IN  IF f1.raised # "none" THEN f1 ELSE SearchAndFetch(f1, out)

\* faulty variant: the reference is cleared only when LOGOUT succeeds (no finally)
LogoutSyncNoFinally(f, out) ==
    IF f.imap = None THEN f
    ELSE LET c  == f.imap
             f1 == Send(SetConnState(f, c, "LOGOUT"), "LOGOUT")
         IN  IF out.logout THEN [f1 EXCEPT !.conns[c].open = FALSE, !.imap = None]
             ELSE Raise(f1, "logout")

\* faulty variant: logout() is called without testing self._imap
LogoutSyncUnguarded(f, out) ==
    IF f.imap = None THEN Raise(f, "attribute error")
    ELSE LET c  == f.imap
             f1 == Send(SetConnState(f, c, "LOGOUT"), "LOGOUT")
             f2 == IF out.logout THEN [f1 EXCEPT !.conns[c].open = FALSE]
                   ELSE Raise(f1, "logout")
         IN  [f2 EXCEPT !.imap = None]

\* _logout_sync
LogoutSync(f, out) ==
    IF f.imap = None THEN f
    ELSE LET c  == f.imap
             f1 == Send(SetConnState(f, c, "LOGOUT"), "LOGOUT")
             f2 == IF out.logout THEN [f1 EXCEPT !.conns[c].open = FALSE]
                   ELSE Raise(f1, "logout")
         IN  [f2 EXCEPT !.imap = None]

\* faulty variant: the operation does not wait for the lock
CanAcquireAlways == TRUE

\* asyncio.Lock.acquire's fast path
CanAcquire == ~locked /\ waiters = <<>>

SessInit ==
    /\ ctor_provider \in RawProviders
    /\ provider = Lower(ctor_provider)
    /\ use_oauth \in BOOLEAN
    /\ imap = None
    /\ conns = <<>>
    /\ locked = FALSE
    /\ waiters = <<>>
    /\ pc = [t \in Tasks |-> "idle"]
    /\ op = [t \in Tasks |-> "none"]
    /\ last = NoFrame
    /\ everClosed = FALSE

\* a coroutine calls connect(), fetch_latest() or close(): async with self._lock
Call(t, o) ==
    /\ pc[t] = "idle"
    /\ op' = [op EXCEPT ![t] = o]
    /\ IF CanAcquire
       THEN /\ locked' = TRUE
            /\ pc' = [pc EXCEPT ![t] = "running"]
            /\ UNCHANGED waiters
       ELSE /\ waiters' = Append(waiters, t)
            /\ pc' = [pc EXCEPT ![t] = "waiting"]
            /\ UNCHANGED locked
    /\ UNCHANGED <<ctor_provider, provider, use_oauth, imap, conns, last, everClosed>>
    /\ UNCHANGED <<tokVars, ident, auxVars>>

\* the first waiter is woken after a release and takes the lock
Wake(t) ==
    /\ ~locked
    /\ waiters # <<>>
    /\ t = Head(waiters)
    /\ locked' = TRUE
    /\ waiters' = Tail(waiters)
    /\ pc' = [pc EXCEPT ![t] = "running"]
    /\ UNCHANGED <<ctor_provider, provider, use_oauth, imap, conns, op, last, everClosed>>
    /\ UNCHANGED <<tokVars, ident, auxVars>>

\* the helper's frame becomes the session's state and the pending result
Finish(t, f) ==
    /\ pc[t] = "running"
    /\ last' = f
    /\ imap' = f.imap
    /\ conns' = f.conns
    /\ everClosed' = (everClosed \/ (f.op = "close" /\ imap # None))
    /\ pc' = [pc EXCEPT ![t] = "returned"]
    /\ UNCHANGED <<ctor_provider, provider, use_oauth, locked, waiters, op>>
    /\ UNCHANGED <<tokVars, ident, auxVars>>

\* connect(): the worker thread runs _connect_sync to its end
RunConnect(t) ==
    /\ op[t] = "connect"
    /\ \E cout \in ConnectOutcomes :
         Finish(t, ConnectSync(Frame(t, "connect", 0), cout))

\* fetch_latest(limit): the worker thread runs _fetch_latest_sync to its end
RunFetch(t) ==
    /\ op[t] = "fetch"
    /\ \E limit \in Limits, out \in FetchOutcomes :
         \E cout \in (IF imap = None THEN ConnectOutcomes
                       ELSE {[tls |-> TRUE, auth |-> TRUE, select |-> "OK"]}) :
            Finish(t, FetchLatestSync(Frame(t, "fetch", limit), cout, out))

\* close(): the worker thread runs _logout_sync to its end
RunClose(t) ==
    /\ op[t] = "close"
    /\ \E out \in LogoutOutcomes :
         Finish(t, LogoutSync(Frame(t, "close", 0), out))

\* faulty variant: the lock is released by hand after the helper, so an
\* exception of the helper skips the release
ExitNoReleaseOnError(t) ==
    /\ pc[t] = "returned"
    /\ locked' = (last.raised # "none")
    /\ pc' = [pc EXCEPT ![t] = "idle"]
    /\ op' = [op EXCEPT ![t] = "none"]
    /\ last' = NoFrame
    /\ UNCHANGED <<ctor_provider, provider, use_oauth, imap, conns, waiters, everClosed>>
    /\ UNCHANGED <<tokVars, ident, auxVars>>

\* the coroutine resumes, leaves the async with block and returns or raises
Exit(t) ==
    /\ pc[t] = "returned"
    /\ locked' = FALSE
    /\ pc' = [pc EXCEPT ![t] = "idle"]
    /\ op' = [op EXCEPT ![t] = "none"]
    /\ last' = NoFrame
    /\ UNCHANGED <<ctor_provider, provider, use_oauth, imap, conns, waiters, everClosed>>
    /\ UNCHANGED <<tokVars, ident, auxVars>>

SessNext ==
    \E t \in Tasks :
        \/ \E o \in {"connect", "fetch", "close"} : Call(t, o)
        \/ Wake(t)
        \/ RunConnect(t)
        \/ RunFetch(t)
        \/ RunClose(t)
        \/ Exit(t)

\* ----------------------------------------------------------- token_utils

PyNone == "<None>"

\* Python truthiness of an optional string
Truthy(v) == v # PyNone /\ v # ""

RefreshTokens == {"r1", "r2"}
AccessTokens  == {"at"}
ClientKeys    == {"GMAIL_CLIENT_ID", "GMAIL_CLIENT_SECRET", "OUTLOOK_CLIENT_ID"}
RefreshKeys   == {"GMAIL_REFRESH_TOKEN", "OUTLOOK_REFRESH_TOKEN"}

\* os.getenv(key): None when the variable is not set
GetEnv(env, key) == IF key \in DOMAIN env THEN env[key] ELSE PyNone

\* what the token endpoint may answer to one POST; decodeError is the class of
\* the exception resp.json() raises on a body that is not JSON (a
\* RequestException in current requests releases, a plain ValueError before)
TokenResponses ==
    {[transport |-> FALSE, status |-> 0, kind |-> "none", decodeError |-> "RequestException",
      access_token |-> PyNone, refresh_token |-> PyNone]}
    \cup {[transport |-> TRUE, status |-> st, kind |-> "object", decodeError |-> "RequestException",
           access_token |-> a, refresh_token |-> PyNone]
            : st \in {400, 500}, a \in {PyNone} \cup AccessTokens}
    \cup {[transport |-> TRUE, status |-> 200, kind |-> "nonjson", decodeError |-> e,
           access_token |-> PyNone, refresh_token |-> PyNone]
            : e \in {"RequestException", "ValueError"}}
    \cup {[transport |-> TRUE, status |-> 200, kind |-> "nonobject", decodeError |-> "RequestException",
           access_token |-> PyNone, refresh_token |-> PyNone]}
    \cup {[transport |-> TRUE, status |-> 200, kind |-> "object", decodeError |-> "RequestException",
           access_token |-> a, refresh_token |-> r]
            : a \in {PyNone, ""} \cup AccessTokens, r \in {PyNone, ""} \cup RefreshTokens}

NoResponse ==
    [transport |-> FALSE, status |-> 0, kind |-> "unsent", decodeError |-> "RequestException",
     access_token |-> PyNone, refresh_token |-> PyNone]

\* how open()/writelines() on the .env file may end
IoOutcomes == {"ok", "unwritable", "truncated"}

\* the file is touched only when the response rotates the token sent
IoFor(resp, rt) ==
    IF resp.transport /\ resp.status = 200 /\ resp.kind = "object"
       /\ resp.refresh_token \notin {PyNone, "", rt}
    THEN IoOutcomes ELSE {"ok"}

\* the first line that starts with "KEY=", 0 when there is none
RECURSIVE FindLine(_, _, _)
FindLine(lines, key, i) ==
    IF i > Len(lines) THEN 0
    ELSE IF lines[i].key = key THEN i
    ELSE FindLine(lines, key, i + 1)

\* the read-modify-write of the file in _update_env_file
RewriteLines(lines, key, value) ==
    LET i == FindLine(lines, key, 1)
    IN  IF i # 0 THEN [lines EXCEPT ![i] = [key |-> key, value |-> value]]
        ELSE Append(lines, [key |-> key, value |-> value])

\* _update_env_file on the call state c (its environ, envFile and counters)
UpdateEnvFile(c, key, value, io) ==
    IF ~Truthy(value) THEN [c EXCEPT !.notified = @ + 1]
    ELSE [c EXCEPT !.notified = @ + 1,
                   !.environ = [k \in DOMAIN @ \cup {key} |-> IF k = key THEN value ELSE @[k]],
                   !.envFile = CASE io = "ok"         -> RewriteLines(@, key, value)
                                 [] io = "truncated"  -> <<>>
                                 [] OTHER             -> @]

\* the call state a token call starts with
TokenCall(fn, prov, acct, rt) ==
    [fn |-> fn, provider |-> prov, account |-> acct, rt |-> rt,
     requests |-> 0, resp |-> NoResponse, notified |-> 0,
     outcome |-> "running", value |-> PyNone,
     environ |-> environ, envFile |-> envFile]

NoCall ==
    [fn |-> "none", provider |-> "", account |-> 0, rt |-> "",
     requests |-> 0, resp |-> NoResponse, notified |-> 0,
     outcome |-> "none", value |-> PyNone,
     environ |-> <<>>, envFile |-> <<>>]

Return(c, v) == [c EXCEPT !.outcome = "return", !.value = v]
Throw(c, e)  == [c EXCEPT !.outcome = "raise", !.value = e]

\* the client configuration a provider's refresh requires
RequiredConfig(prov) ==
    IF prov = "gmail" THEN {"GMAIL_CLIENT_ID", "GMAIL_CLIENT_SECRET"}
    ELSE {"OUTLOOK_CLIENT_ID"}

RefreshKey(prov) ==
    IF prov = "gmail" THEN "GMAIL_REFRESH_TOKEN" ELSE "OUTLOOK_REFRESH_TOKEN"

\* faulty variant: every HTTP status is taken for a success
StatusOKAny(resp) == TRUE

\* "resp.status_code == 200"
StatusOK(resp) == resp.status = 200

\* faulty variant: the rotated token is not compared with the one sent
IsRotationAnyToken(new_refresh, refresh_token) == Truthy(new_refresh)

\* "new_refresh and new_refresh != refresh_token"
IsRotation(new_refresh, refresh_token) ==
    Truthy(new_refresh) /\ new_refresh # refresh_token

\* the body of the try block of refresh_*_access_token, after the POST was sent
HandleResponse(c, resp, io) ==
    IF ~resp.transport THEN Return(c, PyNone)
    ELSE IF ~StatusOK(resp) THEN Return(c, PyNone)
    ELSE IF resp.kind = "nonjson"
         THEN (IF resp.decodeError = "RequestException"
               THEN Return(c, PyNone) ELSE Throw(c, "ValueError"))
    ELSE IF resp.kind = "nonobject" THEN Throw(c, "AttributeError")
    ELSE LET c1 == IF IsRotation(resp.refresh_token, c.rt)
                   THEN UpdateEnvFile(c, RefreshKey(c.provider), resp.refresh_token, io)
                   ELSE c
         IN  Return(c1, resp.access_token)

\* faulty variant: a request that got no success response is sent again
PostAgain(c, resp) ==
    [c EXCEPT !.requests = @ + (IF resp.transport /\ resp.status = 200 THEN 1 ELSE 2),
              !.resp = resp]

\* requests.post(token_url, data=data, timeout=10): one request, one response
Post(c, resp) == [c EXCEPT !.requests = @ + 1, !.resp = resp]

\* refresh_gmail_access_token / refresh_outlook_access_token (c.provider tells which)
RefreshAccessToken(c, resp, io) ==
    IF ~Truthy(c.rt) THEN Return(c, PyNone)
    ELSE IF \E k \in RequiredConfig(c.provider) : ~Truthy(GetEnv(c.environ, k))
         THEN Throw(c, "RuntimeError")
    ELSE HandleResponse(Post(c, resp), resp, io)

\* auth.encrypt_token / auth.decrypt_token (Fernet, with the process's key)
Encrypt(raw) == <<"fernet", raw>>
Decrypt(enc) == enc[2]

Users      == {1, 2}
AccountIds == {1, 2, 3}

\* get_email_account_for_user: the row with this id owned by this user, or None
FindAccount(table, user_id, account_id) ==
    IF account_id \in DOMAIN table /\ table[account_id].user_id = user_id
    THEN account_id ELSE None

\* faulty variant: a missing access token is handed to the caller
RequireTokenNever(c) == c

\* "if not access_token: raise RuntimeError(...)"
RequireToken(c) ==
    IF c.outcome = "return" /\ ~Truthy(c.value) THEN Throw(c, "RuntimeError") ELSE c

\* get_access_token_for_account
GetAccessTokenForAccount(table, user_id, account_id, resp, io) ==
    LET a == FindAccount(table, user_id, account_id)
    IN  IF a = None
        THEN Throw(TokenCall("account", "", account_id, ""), "RuntimeError")
        ELSE LET c == TokenCall("account", table[a].provider, a,
                                Decrypt(table[a].refresh_token_encrypted))
             IN  IF c.provider \in {"gmail", "outlook"}
                 THEN RequireToken(RefreshAccessToken(c, resp, io))
                 ELSE Throw(c, "RuntimeError")

\* the configurations the process may start with: each client variable set or not
TokInit ==
    /\ \E missing \in {{}, {"GMAIL_CLIENT_ID"}, {"GMAIL_CLIENT_SECRET"}, {"OUTLOOK_CLIENT_ID"}} :
         environ = [k \in (ClientKeys \ missing) \cup RefreshKeys |->
                      IF k \in RefreshKeys THEN "r1" ELSE "configured"]
    /\ envFile \in {<<>>, <<[key |-> "GMAIL_REFRESH_TOKEN", value |-> "r1"],
                            [key |-> "OUTLOOK_REFRESH_TOKEN", value |-> "r1"]>>}
    /\ db = [a \in AccountIds |->
               [user_id |-> IF a = 3 THEN 2 ELSE 1,
                provider |-> CASE a = 1 -> "gmail" [] a = 2 -> "outlook" [] OTHER -> "yahoo",
                email_address |-> "u@x.com",
                refresh_token_encrypted |-> Encrypt("r1")]]
    /\ tlast = NoCall

\* refresh_gmail_access_token(refresh_token), as test_run.main calls it
RefreshGmail ==
    \E rt \in {""} \cup RefreshTokens, resp \in TokenResponses : \E io \in IoFor(resp, rt) :
        LET c == RefreshAccessToken(TokenCall("refresh", "gmail", 0, rt), resp, io)
        IN  /\ tlast' = c
            /\ environ' = c.environ
            /\ envFile' = c.envFile
            /\ UNCHANGED <<db, sessVars, ident, auxVars>>

\* refresh_outlook_access_token(refresh_token)
RefreshOutlook ==
    \E rt \in {""} \cup RefreshTokens, resp \in TokenResponses : \E io \in IoFor(resp, rt) :
        LET c == RefreshAccessToken(TokenCall("refresh", "outlook", 0, rt), resp, io)
        IN  /\ tlast' = c
            /\ environ' = c.environ
            /\ envFile' = c.envFile
            /\ UNCHANGED <<db, sessVars, ident, auxVars>>

\* get_access_token_for_account(user_id, account_id), as app.py calls it
AccountToken ==
    \E u \in Users, a \in AccountIds \cup {4}, resp \in TokenResponses :
      \E io \in IoFor(resp, IF a \in DOMAIN db THEN Decrypt(db[a].refresh_token_encrypted) ELSE "") :
        LET c == GetAccessTokenForAccount(db, u, a, resp, io)
        IN  /\ tlast' = c
            /\ environ' = c.environ
            /\ envFile' = c.envFile
            /\ UNCHANGED <<db, sessVars, ident, auxVars>>

TokNext == RefreshGmail \/ RefreshOutlook \/ AccountToken

\* ------------------------------------------------- identity resolution

\* what the Gmail profile endpoint may answer to one GET
ProfileResponses ==
    {[transport |-> FALSE, status |-> 0, kind |-> "none", decodeError |-> "RequestException",
      emailAddress |-> PyNone]}
    \cup {[transport |-> TRUE, status |-> st, kind |-> "object", decodeError |-> "RequestException",
           emailAddress |-> PyNone] : st \in {401, 500}}
    \cup {[transport |-> TRUE, status |-> 200, kind |-> "nonjson", decodeError |-> e,
           emailAddress |-> PyNone] : e \in {"RequestException", "ValueError"}}
    \cup {[transport |-> TRUE, status |-> 200, kind |-> "nonobject", decodeError |-> "RequestException",
           emailAddress |-> PyNone]}
    \cup {[transport |-> TRUE, status |-> 200, kind |-> "object", decodeError |-> "RequestException",
           emailAddress |-> e] : e \in {PyNone, "u@x.com"}}

NoProfile ==
    [transport |-> FALSE, status |-> 0, kind |-> "unsent", decodeError |-> "RequestException",
     emailAddress |-> PyNone]

\* faulty variant: email is looked up before preferred_username
ClaimKeysReordered ==
    <<"email", "preferred_username", "upn", "unique_name", "userPrincipalName">>

\* the claims read by get_outlook_email_from_access_token, in its order
ClaimKeys ==
    <<"preferred_username", "email", "upn", "unique_name", "userPrincipalName">>

ClaimKeySet == {ClaimKeys[i] : i \in 1..Len(ClaimKeys)}

\* the values a claim may have in a token: absent, empty, or an address
ClaimValues(k) == {PyNone, "", k}

\* a segment of a dotted token: what base64url-decoding, UTF-8 decoding and
\* json.loads make of it
Opaque == [kind |-> "opaque", claims |-> <<>>]

Payloads ==
    {[kind |-> kd, claims |-> <<>>] : kd \in {"badb64", "badutf8", "nonjson", "nonobject"}}
    \cup {[kind |-> "object", claims |-> cs] :
            cs \in {f \in [ClaimKeySet -> {PyNone, ""} \cup ClaimKeySet] :
                      \A k \in ClaimKeySet : f[k] \in ClaimValues(k)}}

\* the signature segment: one that verifies and one that is not even base64url
Signatures == {Opaque, [kind |-> "badb64", claims |-> <<>>]}

\* access tokens as their "."-separated segments; <<>> is the empty string
JwtTokens ==
    {<<>>, <<Opaque>>}
    \cup {<<Opaque, pl>> : pl \in Payloads}
    \cup {<<Opaque, pl, sg>> : pl \in Payloads, sg \in Signatures}

IdentCall(fn, token, resp) ==
    [fn |-> fn, token |-> token, resp |-> resp, outcome |-> "running", value |-> PyNone]

NoIdent ==
    [fn |-> "none", token |-> <<>>, resp |-> NoProfile, outcome |-> "none", value |-> PyNone]

\* get_gmail_email
GetGmailEmail(token, resp) ==
    LET c  == IdentCall("gmail_email", token, NoProfile)
        c1 == [c EXCEPT !.resp = resp]
    IN  IF token = <<>> THEN Return(c, PyNone)
        ELSE IF ~resp.transport THEN Return(c1, PyNone)
        ELSE IF ~StatusOK(resp) THEN Return(c1, PyNone)
        ELSE IF resp.kind = "nonjson"
             THEN (IF resp.decodeError = "RequestException"
                   THEN Return(c1, PyNone) ELSE Throw(c1, "ValueError"))
        ELSE IF resp.kind = "nonobject" THEN Throw(c1, "AttributeError")
        ELSE Return(c1, resp.emailAddress)

\* the loop over the claim keys: the first truthy value, else None
RECURSIVE FirstClaim(_, _)
FirstClaim(claims, i) ==
    IF i > Len(ClaimKeys) THEN PyNone
    ELSE IF Truthy(claims[ClaimKeys[i]]) THEN claims[ClaimKeys[i]]
    ELSE FirstClaim(claims, i + 1)

\* the exception that urlsafe_b64decode, bytes.decode, json.loads or claims.get
\* raises on the payload segment, "none" when all four go through
PayloadError(seg) ==
    CASE seg.kind = "badb64"    -> "binascii.Error"
      [] seg.kind = "badutf8"   -> "UnicodeDecodeError"
      [] seg.kind = "nonjson"   -> "JSONDecodeError"
      [] seg.kind = "nonobject" -> "AttributeError"
      [] OTHER                  -> "none"

\* get_outlook_email_from_access_token; "except Exception" returns None
GetOutlookEmail(token) ==
    LET c == IdentCall("outlook_email", token, NoProfile)
    IN  IF token = <<>> THEN Return(c, PyNone)
        ELSE IF Len(token) < 2 THEN Return(c, PyNone)
        ELSE IF PayloadError(token[2]) # "none" THEN Return(c, PyNone)
        ELSE Return(c, FirstClaim(token[2].claims, 1))

IdentInit == ident = NoIdent

\* get_gmail_email(access_token), as test_run.main and the callback call it
GmailIdentity ==
    /\ \E token \in {<<>>, <<Opaque>>}, resp \in ProfileResponses :
         ident' = GetGmailEmail(token, resp)
    /\ UNCHANGED <<sessVars, tokVars, auxVars>>

\* get_outlook_email_from_access_token(access_token)
OutlookIdentity ==
    /\ \E token \in JwtTokens : ident' = GetOutlookEmail(token)
    /\ UNCHANGED <<sessVars, tokVars, auxVars>>

IdentNext == GmailIdentity \/ OutlookIdentity

\* ------------------------------------------------- the XOAUTH2 string

MaxStrLen == 2      \* longest generated email address and token

\* the characters of the generated strings: "u", "@" and e-acute
Chars == {117, 64, 233}

Strs == UNION {[1..n -> Chars] : n \in 0..MaxStrLen}

\* "u@x.com" and "T"
SampleEmail == <<117, 64, 120, 46, 99, 111, 109>>
SampleToken == <<84>>

\* str.encode("utf-8") on code points below 0x10000
RECURSIVE Utf8Encode(_)
Utf8Encode(cps) ==
    IF cps = <<>> THEN <<>>
    ELSE LET cp == Head(cps)
         IN  (IF cp < 128 THEN <<cp>>
              ELSE IF cp < 2048 THEN <<192 + (cp \div 64), 128 + (cp % 64)>>
              ELSE <<224 + (cp \div 4096), 128 + ((cp \div 64) % 64), 128 + (cp % 64)>>)
             \o Utf8Encode(Tail(cps))

\* the text "user=" and the text "auth=Bearer "
UserPrefix == <<117, 115, 101, 114, 61>>
AuthPrefix == <<97, 117, 116, 104, 61, 66, 101, 97, 114, 101, 114, 32>>

\* faulty variant: the string ends with a single 0x01
OAuthStringShort(e, t) ==
    Utf8Encode(UserPrefix \o e \o <<1>> \o AuthPrefix \o t \o <<1>>)

\* _oauth_string: the f-string, then .encode("utf-8")
OAuthString(e, t) ==
    Utf8Encode(UserPrefix \o e \o <<1>> \o AuthPrefix \o t \o <<1, 1>>)

OAuthInit ==
    /\ email \in Strs \cup {SampleEmail}
    /\ credential \in Strs \cup {SampleToken}
    /\ auth_string = <<>>

\* _connect_sync's authenticate("XOAUTH2", ...) asks for the initial response
BuildOAuthString ==
    /\ auth_string' = OAuthString(email, credential)
    /\ UNCHANGED <<email, credential>>
    /\ UNCHANGED <<sessVars, tokVars, ident, callVars, parseVars, extVars>>

OAuthNext == BuildOAuthString

\* -------------------------------------------- the callers of a session

\* the names the callers give their sessions
ClientNames == {"gmail_client", "outlook_client", "client"}

\* a session as its constructor leaves it
NewClient(p) == [provider |-> p, imap |-> None, conns |-> <<>>, locked |-> FALSE]

NewTask ==
    [pc |-> "idle", op |-> "none", raised |-> "none",
     connected |-> FALSE, closeCalled |-> FALSE]

\* test_run.main's two clients
MainClients ==
    [c \in {"gmail_client", "outlook_client"} |->
        NewClient(IF c = "gmail_client" THEN "gmail" ELSE "outlook")]

\* _async_connect_and_fetch_account's one client, for an account of either provider
AppClients == {[c \in {"client"} |-> NewClient(p)] : p \in {"gmail", "outlook"}}

\* the frame a helper of client c starts with
ClientFrame(c, o) ==
    [task |-> 0, op |-> o, limit |-> fetch_limit, before |-> clients[c].imap,
     provider |-> clients[c].provider, use_oauth |-> TRUE,
     imap |-> clients[c].imap, conns |-> clients[c].conns,
     cout |-> NoConnect,
     cmds |-> <<>>, search |-> "", fstatus |-> "", searched |-> <<>>, fetched |-> <<>>,
     raised |-> "none", ret |-> <<>>]

\* faulty variant: one lock object is shared by all sessions
LockFreeShared(c) == \A d \in DOMAIN clients : ~clients[d].locked

\* the fast path of the lock of client c's session
LockFree(c) == ~clients[c].locked

CallerInit ==
    /\ phase = "connect"
    /\ \/ clients = MainClients /\ fetch_limit = 2
       \/ clients \in AppClients /\ fetch_limit \in 1..MaxLimit
    /\ task = [c \in DOMAIN clients |-> NewTask]

\* the caller (directly or through gather) starts the phase's operation on
\* client c: async with self._lock
Issue(c) ==
    /\ c \in DOMAIN clients
    /\ phase \in {"connect", "fetch", "close"}
    /\ task[c].pc = "idle"
    /\ IF LockFree(c)
       THEN /\ clients' = [clients EXCEPT ![c].locked = TRUE]
            /\ task' = [task EXCEPT ![c].pc = "running", ![c].op = phase,
                                    ![c].closeCalled = @ \/ phase = "close"]
       ELSE /\ task' = [task EXCEPT ![c].pc = "waiting", ![c].op = phase,
                                    ![c].closeCalled = @ \/ phase = "close"]
            /\ UNCHANGED clients
    /\ UNCHANGED <<phase, fetch_limit>>
    /\ UNCHANGED <<sessVars, tokVars, ident, oaVars, parseVars, extVars>>

\* the helper's frame becomes the state of client c's session
Done(c, f) ==
    /\ c \in DOMAIN clients
    /\ task[c].pc = "running"
    /\ clients' = [clients EXCEPT ![c].imap = f.imap, ![c].conns = f.conns]
    /\ task' = [task EXCEPT ![c].pc = "returned", ![c].raised = f.raised]
    /\ UNCHANGED <<phase, fetch_limit>>
    /\ UNCHANGED <<sessVars, tokVars, ident, oaVars, parseVars, extVars>>

\* the worker thread of client c's connect() runs _connect_sync
HelperConnect(c) ==
    /\ c \in DOMAIN clients /\ task[c].op = "connect"
    /\ \E cout \in ConnectOutcomes : Done(c, ConnectSync(ClientFrame(c, "connect"), cout))

\* the worker thread of client c's fetch_latest() runs _fetch_latest_sync
HelperFetch(c) ==
    /\ c \in DOMAIN clients /\ task[c].op = "fetch"
    /\ \E out \in FetchOutcomes :
         Done(c, FetchLatestSync(ClientFrame(c, "fetch"), NoConnect, out))

\* the worker thread of client c's close() runs _logout_sync
HelperClose(c) ==
    /\ c \in DOMAIN clients /\ task[c].op = "close"
    /\ \E out \in LogoutOutcomes : Done(c, LogoutSync(ClientFrame(c, "close"), out))

\* the event loop resumes client c's operation, which leaves its async
\* with block; an exception reaches the caller, which has no handler
\* around its three awaits and ends there
Resume(c) ==
    /\ c \in DOMAIN clients
    /\ task[c].pc = "returned"
    /\ \A d \in DOMAIN task : task[d].pc # "idle"
    /\ clients' = [clients EXCEPT ![c].locked = FALSE]
    /\ task' = [task EXCEPT ![c].pc = IF task[c].raised = "none" THEN "done" ELSE "raised",
                            ![c].connected = @ \/ (task[c].op = "connect" /\ task[c].raised = "none")]
    /\ phase' = IF task[c].raised = "none" THEN phase ELSE "failed"
    /\ UNCHANGED fetch_limit
    /\ UNCHANGED <<sessVars, tokVars, ident, oaVars, parseVars, extVars>>

\* every operation of the phase returned: the caller goes on to the next await
NextPhase ==
    /\ phase \in {"connect", "fetch", "close"}
    /\ \A c \in DOMAIN task : task[c].pc = "done"
    /\ phase' = CASE phase = "connect" -> "fetch"
                  [] phase = "fetch"   -> "close"
                  [] phase = "close"   -> "done"
    /\ task' = [c \in DOMAIN task |->
                 [task[c] EXCEPT !.pc = IF phase = "close" THEN "done" ELSE "idle"]]
    /\ UNCHANGED <<clients, fetch_limit>>
    /\ UNCHANGED <<sessVars, tokVars, ident, oaVars, parseVars, extVars>>

CallerNext ==
    \/ \E c \in ClientNames :
          \/ Issue(c)
          \/ HelperConnect(c)
          \/ HelperFetch(c)
          \/ HelperClose(c)
          \/ Resume(c)
    \/ NextPhase

\* ----------------------------------------------------------- EmailParser

MaxNodes == 3       \* most nodes (parts and containers) of a message's MIME tree

\* Python's None among str values (a str is a sequence of code points)
NoneStr == <<-1>>

\* a header value as decode_header splits it: words that are plain text
\* (charset "") or encoded words with their charset and their bytes
Word(cs, bs) == [charset |-> cs, bytes |-> bs]
Absent == [present |-> FALSE, words |-> <<>>]
Hdr(ws) == [present |-> TRUE, words |-> ws]

\* "Hi", "Hi " + latin-1 e-acute, UTF-8 "c" + e-acute, latin-1 e-acute, UTF-8
\* with a stray byte, an unregistered charset, and a raw 8-bit header (which
\* the email package labels unknown-8bit)
SubjectValues ==
    {Absent,
     Hdr(<<Word("", <<72, 105>>)>>),
     Hdr(<<Word("", <<72, 105, 32>>), Word("iso-8859-1", <<233>>)>>),
     Hdr(<<Word("utf-8", <<99, 195, 169>>)>>),
     Hdr(<<Word("iso-8859-1", <<233>>)>>),
     Hdr(<<Word("utf-8", <<65, 233>>)>>),
     Hdr(<<Word("x-unknown", <<97>>)>>),
     Hdr(<<Word("unknown-8bit", <<233>>)>>)}

FromValues == {Absent, Hdr(<<Word("", <<97, 64, 98>>)>>), Hdr(<<Word("x-unknown", <<97>>)>>)}
ToValues   == {Absent, Hdr(<<Word("", <<99, 64, 100>>)>>)}

\* msg.get("Date"): None, or the header's text ("Mon")
DateValues == {NoneStr, <<77, 111, 110>>}

Headers == [subject : SubjectValues, from : FromValues, to : ToValues, date : DateValues]

\* the codecs Python knows among the charsets above
KnownCharsets == {"utf-8", "iso-8859-1"}

\* bytes.decode("utf-8", errors="ignore")
RECURSIVE Utf8DecodeIgnore(_)
Utf8DecodeIgnore(bs) ==
    IF bs = <<>> THEN <<>>
    ELSE LET b == Head(bs)
             n == Len(bs)
             Cont(i) == i <= n /\ bs[i] \in 128..191
         IN  IF b < 128 THEN <<b>> \o Utf8DecodeIgnore(Tail(bs))
             ELSE IF b \in 194..223 /\ Cont(2)
                  THEN <<(b - 192) * 64 + (bs[2] - 128)>>
                       \o Utf8DecodeIgnore(SubSeq(bs, 3, n))
             ELSE IF /\ b \in 224..239 /\ Cont(2) /\ Cont(3)
                     /\ (b = 224 => bs[2] >= 160) /\ (b = 237 => bs[2] <= 159)
                  THEN <<(b - 224) * 4096 + (bs[2] - 128) * 64 + (bs[3] - 128)>>
                       \o Utf8DecodeIgnore(SubSeq(bs, 4, n))
             ELSE Utf8DecodeIgnore(Tail(bs))

Ok(str) == [raised |-> "none", s |-> str]
LookupError == [raised |-> "LookupError", s |-> <<>>]

\* text.decode(charset or "utf-8", errors="ignore")
DecodeBytes(bs, cs) ==
    IF cs \in {"", "utf-8"} THEN Ok(Utf8DecodeIgnore(bs))
    ELSE IF cs = "iso-8859-1" THEN Ok(bs)
    ELSE LookupError

\* the loop of decode_mime over the (bytes, charset) parts
RECURSIVE DecodeParts(_)
DecodeParts(ws) ==
    IF ws = <<>> THEN Ok(<<>>)
    ELSE LET d == DecodeBytes(Head(ws).bytes, Head(ws).charset)
         IN  IF d.raised # "none" THEN d
             ELSE LET r == DecodeParts(Tail(ws))
                  IN  IF r.raised # "none" THEN r ELSE Ok(d.s \o r.s)

\* decode_mime: "" for None and "", the text itself when decode_header
\* finds no encoded word (one str part), else the decoded parts in order
DecodeMime(v) ==
    IF ~v.present \/ v.words = <<>> THEN Ok(<<>>)
    ELSE IF \A i \in 1..Len(v.words) : v.words[i].charset = ""
         THEN Ok(v.words[1].bytes)
    ELSE DecodeParts(v.words)

\* ---- the MIME tree

\* "Hello", "A", "<p>B</p>", "xyz", and "xyz" in base64 (eHl6) as sextets
Hello  == <<72, 101, 108, 108, 111>>
TextA  == <<65>>
HtmlB  == <<60, 112, 62, 66, 60, 47, 112, 62>>
Xyz    == <<120, 121, 122>>
XyzB64 == <<30, 7, 37, 58>>

\* the file names "a.txt" and, as an encoded word, e-acute + ".txt"
NameA   == Hdr(<<Word("", <<97, 46, 116, 120, 116>>)>>)
NameEnc == Hdr(<<Word("utf-8", <<195, 169, 46, 116, 120, 116>>)>>)

\* "c" and e-acute in ISO-8859-1
Latin == <<99, 233>>

\* a part; charset is the charset parameter of its Content-Type, "" when
\* it declares none
Part(ct, d, fn, enc, b) ==
    [ctype |-> ct, charset |-> "", disp |-> d, filename |-> fn, cte |-> enc,
     body |-> b, parts |-> <<>>]

Declaring(part, cs) == [part EXCEPT !.charset = cs]

\* the single parts: disp is str(part.get_content_disposition())
Leaves ==
    {Part("text/plain", "None", Absent, "7bit", Hello),
     Part("text/plain", "inline", Absent, "7bit", TextA),
     Part("text/plain", "attachment", NameA, "7bit", Xyz),
     Part("text/plain", "x-attachment", Absent, "7bit", TextA),
     Declaring(Part("text/plain", "None", Absent, "8bit", Latin), "iso-8859-1"),
     Part("text/html", "None", Absent, "7bit", HtmlB),
     Part("text/html", "attachment", Absent, "7bit", HtmlB),
     Part("application/pdf", "inline", Absent, "base64", XyzB64),
     Part("application/pdf", "attachment", NameA, "base64", XyzB64),
     Part("application/pdf", "attachment", NameEnc, "base64", XyzB64)}

Container(d, kids) ==
    [ctype |-> "multipart/mixed", charset |-> "", disp |-> d, filename |-> Absent,
     cte |-> "7bit",
     body |-> <<>>, parts |-> kids]

\* the MIME trees of exactly n nodes, and the non-empty sequences of trees
\* of n nodes in all
RECURSIVE TreesOfSize(_), Forests(_)
TreesOfSize(n) ==
    IF n = 1 THEN Leaves
    ELSE {Container(d, kids) : d \in {"None", "attachment"}, kids \in Forests(n - 1)}

Forests(n) ==
    {<<t>> : t \in TreesOfSize(n)}
    \cup UNION {{<<t>> \o rest : t \in TreesOfSize(i), rest \in Forests(n - i)} :
                  i \in 1..(n - 1)}

Trees == UNION {TreesOfSize(n) : n \in 1..MaxNodes}

Messages == [headers : Headers, body : Trees]

\* base64 decoding of a body given as sextets (padding left out)
RECURSIVE B64Decode(_)
B64Decode(sx) ==
    LET n == Len(sx)
    IN  IF n >= 4
        THEN LET v == sx[1] * 262144 + sx[2] * 4096 + sx[3] * 64 + sx[4]
             IN  <<v \div 65536, (v \div 256) % 256, v % 256>>
                 \o B64Decode(SubSeq(sx, 5, n))
        ELSE IF n = 3
        THEN LET v == sx[1] * 4096 + sx[2] * 64 + sx[3]
             IN  <<v \div 1024, (v \div 4) % 256>>
        ELSE IF n = 2 THEN <<(sx[1] * 64 + sx[2]) \div 16>>
        ELSE <<>>

\* part.get_payload(decode=True): None for a multipart, else the body with
\* its transfer encoding removed
GetPayload(part) ==
    IF part.parts # <<>> THEN [none |-> TRUE, bytes |-> <<>>]
    ELSE [none |-> FALSE,
          bytes |-> IF part.cte = "base64" THEN B64Decode(part.body) ELSE part.body]

\* faulty variant: only the message and its direct parts are visited
WalkShallow(part) == <<part>> \o part.parts

\* msg.walk(): the node, then the walk of each subpart in order
RECURSIVE Walk(_), WalkAll(_)
Walk(part) == <<part>> \o WalkAll(part.parts)

WalkAll(ps) == IF ps = <<>> THEN <<>> ELSE Walk(Head(ps)) \o WalkAll(Tail(ps))

\* "attachment" in disp, for the dispositions above
MentionsAttachment(disp) == disp \in {"attachment", "x-attachment"}

\* round(len(content) / 1024, 2), in hundredths of a KB (ties to even)
SizeKb(len) ==
    LET q == (len * 100) \div 1024
        r == (len * 100) % 1024
    IN  IF r > 512 \/ (r = 512 /\ q % 2 = 1) THEN q + 1 ELSE q

\* the record parse starts with, once the four headers are read
NotParsed ==
    [done |-> FALSE, raised |-> "none",
     subject |-> <<>>, from |-> <<>>, to |-> <<>>, date |-> <<>>,
     text |-> <<>>, html |-> <<>>, attachments |-> <<>>]

Aborted(e) == [NotParsed EXCEPT !.done = TRUE, !.raised = e]

\* one turn of the loop "for part in msg.walk()"
VisitPart(acc, part) ==
    IF acc.raised # "none" THEN acc
    ELSE LET payload == GetPayload(part)
         IN  IF part.ctype = "text/plain" /\ ~MentionsAttachment(part.disp)
             THEN (IF payload.none THEN acc
                   ELSE [acc EXCEPT !.text = @ \o Utf8DecodeIgnore(payload.bytes)])
             ELSE IF part.ctype = "text/html" /\ ~MentionsAttachment(part.disp)
             THEN (IF payload.none THEN acc
                   ELSE [acc EXCEPT !.html = @ \o Utf8DecodeIgnore(payload.bytes)])
             ELSE IF part.disp = "attachment"
             THEN LET fn == DecodeMime(part.filename)
                      content == IF payload.none THEN <<>> ELSE payload.bytes
                  IN  IF fn.raised # "none" THEN Aborted(fn.raised)
                      ELSE [acc EXCEPT !.attachments =
                               Append(@, [filename |-> fn.s,
                                          size_kb |-> SizeKb(Len(content)),
                                          content |-> content])]
             ELSE acc

RECURSIVE VisitAll(_, _)
VisitAll(acc, ps) ==
    IF ps = <<>> THEN acc ELSE VisitAll(VisitPart(acc, Head(ps)), Tail(ps))

\* EmailParser.parse
Parse(m) ==
    LET subject == DecodeMime(m.headers.subject)
        from    == DecodeMime(m.headers.from)
        to      == DecodeMime(m.headers.to)
    IN  IF subject.raised # "none" THEN Aborted(subject.raised)
        ELSE IF from.raised # "none" THEN Aborted(from.raised)
        ELSE IF to.raised # "none" THEN Aborted(to.raised)
        ELSE VisitAll([NotParsed EXCEPT !.done = TRUE,
                                        !.subject = subject.s, !.from = from.s,
                                        !.to = to.s, !.date = m.headers.date],
                      Walk(m.body))

ParserInit ==
    /\ raw_bytes \in Messages
    /\ parsed = NotParsed

\* a caller hands a fetched message to EmailParser.parse
ParseMessage ==
    /\ parsed' = Parse(raw_bytes)
    /\ UNCHANGED raw_bytes
    /\ UNCHANGED <<sessVars, tokVars, ident, oaVars, callVars, extVars>>

ParserNext == ParseMessage

\* ------------------------------------------- concurrent refresh calls

\* the refresh calls that run at once, one thread each
RefreshThreads == {"gmail", "outlook"}

NoThread == [pc |-> "idle", new |-> PyNone, lines |-> <<>>]

\* a file written at offset 0 through its own handle: the lines written
\* replace the leading lines of what the file holds (lines are the unit)
Overlay(written, held) == written \o SubSeq(held, Len(written) + 1, Len(held))

ThreadsInit ==
    /\ TokInit
    /\ thr = [p \in RefreshThreads |-> NoThread]

\* refresh_*_access_token(os.getenv("*_REFRESH_TOKEN")) up to the rotation
\* test: the call ends here unless the response rotates the token
ThreadPost(p) ==
    /\ thr[p].pc = "idle"
    /\ \E resp \in TokenResponses :
         LET rt == GetEnv(environ, RefreshKey(p))
             c  == RefreshAccessToken(TokenCall("refresh", p, 0, rt), resp, "ok")
         IN  thr' = [thr EXCEPT ![p] =
                        IF c.notified = 1
                        THEN [pc |-> "environ", new |-> resp.refresh_token, lines |-> <<>>]
                        ELSE [pc |-> "done", new |-> PyNone, lines |-> <<>>]]
    /\ UNCHANGED <<tokVars, sessVars, ident, oaVars, callVars, parseVars, backVars>>

\* _update_env_file: os.environ[key] = value
ThreadSetEnviron(p) ==
    /\ thr[p].pc = "environ"
    /\ environ' = [k \in DOMAIN environ \cup {RefreshKey(p)} |->
                     IF k = RefreshKey(p) THEN thr[p].new ELSE environ[k]]
    /\ thr' = [thr EXCEPT ![p].pc = "read"]
    /\ UNCHANGED <<envFile, db, tlast>>
    /\ UNCHANGED <<sessVars, ident, oaVars, callVars, parseVars, backVars>>

\* _update_env_file: lines = f.readlines()
ThreadReadLines(p) ==
    /\ thr[p].pc = "read"
    /\ thr' = [thr EXCEPT ![p].pc = "open", ![p].lines = envFile]
    /\ UNCHANGED <<tokVars, sessVars, ident, oaVars, callVars, parseVars, backVars>>

\* _update_env_file: open(env_path, "w") truncates the file
ThreadOpenWrite(p) ==
    /\ thr[p].pc = "open"
    /\ envFile' = <<>>
    /\ thr' = [thr EXCEPT ![p].pc = "write"]
    /\ UNCHANGED <<environ, db, tlast>>
    /\ UNCHANGED <<sessVars, ident, oaVars, callVars, parseVars, backVars>>

\* _update_env_file: f.writelines(lines), flushed when the file is closed
ThreadWriteLines(p) ==
    /\ thr[p].pc = "write"
    /\ envFile' = Overlay(RewriteLines(thr[p].lines, RefreshKey(p), thr[p].new), envFile)
    /\ thr' = [thr EXCEPT ![p].pc = "done"]
    /\ UNCHANGED <<environ, db, tlast>>
    /\ UNCHANGED <<sessVars, ident, oaVars, callVars, parseVars, backVars>>

ThreadsNext ==
    \E p \in RefreshThreads :
        \/ ThreadPost(p)
        \/ ThreadSetEnviron(p)
        \/ ThreadReadLines(p)
        \/ ThreadOpenWrite(p)
        \/ ThreadWriteLines(p)

\* ------------------------------------------------- backend/main.py

MaxStates == 2

\* the values secrets.token_urlsafe(16) returns, in the order it returns
\* them (no value is returned twice); 0 is a value it never returned
StateIds == 1..MaxStates

Workers == {"w1", "w2"}

\* the two pairs of endpoints, and the provider a callback saves
Endpoints == {"google", "outlook"}

SavedProvider(e) == IF e = "google" THEN "gmail" ELSE "outlook"

ClientIdKey(e) == IF e = "google" THEN "GMAIL_CLIENT_ID" ELSE "OUTLOOK_CLIENT_ID"

ClientSecretKey(e) ==
    IF e = "google" THEN "GMAIL_CLIENT_SECRET" ELSE "OUTLOOK_CLIENT_SECRET"

\* how the part of a callback after the pop may end: the token request
\* fails, is answered with a non-200 status, carries no refresh token, gives
\* no email address, the account insert fails, or the account is saved
ExchangeOutcomes == {"transport", "status", "norefresh", "noemail", "saveerror", "saved"}

ExchangeStatus(out) ==
    IF out \in {"transport", "status", "noemail"} THEN 502 ELSE 200

NoReply == [handler |-> "none", state |-> 0, status |-> 0]

Idle == [pc |-> "idle", endpoint |-> "", state |-> 0]

\* faulty variant: the state is looked up and left in the store
KeepState(store, st) == store

\* STATE_STORE.pop(state): what is left in the store
PopState(store, st) == [k \in DOMAIN store \ {st} |-> store[k]]

BackInit ==
    /\ \E missing \in {{}, {"GMAIL_CLIENT_ID"}, {"OUTLOOK_CLIENT_SECRET"}} :
         environ = [k \in {"GMAIL_CLIENT_ID", "GMAIL_CLIENT_SECRET",
                           "OUTLOOK_CLIENT_ID", "OUTLOOK_CLIENT_SECRET"} \ missing
                      |-> "configured"]
    /\ envFile = <<>> /\ db = <<>> /\ tlast = NoCall
    /\ STATE_STORE = <<>>
    /\ issued = <<>>
    /\ exchanges = [st \in StateIds |-> 0]
    /\ accounts = <<>>
    /\ workers = [w \in Workers |-> Idle]
    /\ reply = NoReply

\* oauth_google_start / oauth_outlook_start for user_id u (user 3 does not exist)
OAuthStart(e, u) ==
    /\ IF ~Truthy(GetEnv(environ, ClientIdKey(e)))
       THEN /\ reply' = [handler |-> "start", state |-> 0, status |-> 500]
            /\ UNCHANGED <<STATE_STORE, issued>>
       ELSE IF u \notin Users
       THEN /\ reply' = [handler |-> "start", state |-> 0, status |-> 400]
            /\ UNCHANGED <<STATE_STORE, issued>>
       ELSE LET state == Cardinality(DOMAIN issued) + 1
            IN  /\ state \in StateIds
                /\ STATE_STORE' = [k \in DOMAIN STATE_STORE \cup {state} |->
                                     IF k = state THEN u ELSE STATE_STORE[k]]
                /\ issued' = [k \in DOMAIN issued \cup {state} |->
                                IF k = state THEN u ELSE issued[k]]
                /\ reply' = [handler |-> "start", state |-> state, status |-> 302]
    /\ UNCHANGED <<exchanges, accounts, workers>>
    /\ UNCHANGED <<tokVars, sessVars, ident, oaVars, callVars, parseVars, thr>>

\* oauth_*_callback(code, state) on a worker thread: "if state not in STATE_STORE"
CallbackArrive(w, e, state) ==
    /\ workers[w].pc = "idle"
    /\ IF state \notin DOMAIN STATE_STORE
       THEN /\ reply' = [handler |-> "callback", state |-> state, status |-> 400]
            /\ UNCHANGED workers
       ELSE /\ workers' = [workers EXCEPT ![w] =
                              [pc |-> "pop", endpoint |-> e, state |-> state]]
            /\ UNCHANGED reply
    /\ UNCHANGED <<STATE_STORE, issued, exchanges, accounts>>
    /\ UNCHANGED <<tokVars, sessVars, ident, oaVars, callVars, parseVars, thr>>

\* the callback from STATE_STORE.pop(state) to its response; a state that
\* another worker popped meanwhile is a KeyError, answered with status 500
CallbackRedeem(w, out) ==
    LET e     == workers[w].endpoint
        state == workers[w].state
    IN  /\ workers[w].pc = "pop"
        /\ workers' = [workers EXCEPT ![w] = Idle]
        /\ IF state \notin DOMAIN STATE_STORE
           THEN /\ reply' = [handler |-> "callback", state |-> state, status |-> 500]
                /\ UNCHANGED <<STATE_STORE, exchanges, accounts>>
           ELSE /\ STATE_STORE' = PopState(STATE_STORE, state)
                /\ IF ~Truthy(GetEnv(environ, ClientIdKey(e)))
                      \/ ~Truthy(GetEnv(environ, ClientSecretKey(e)))
                   THEN /\ reply' = [handler |-> "callback", state |-> state,
                                     status |-> 500]
                        /\ UNCHANGED <<exchanges, accounts>>
                   ELSE /\ exchanges' = [exchanges EXCEPT ![state] = @ + 1]
                        /\ reply' = [handler |-> "callback", state |-> state,
                                     status |-> ExchangeStatus(out)]
                        /\ accounts' =
                             IF out = "saved"
                             THEN Append(accounts,
                                         [user_id |-> STATE_STORE[state],
                                          provider |-> SavedProvider(e),
                                          state |-> state])
                             ELSE accounts
        /\ UNCHANGED issued
        /\ UNCHANGED <<tokVars, sessVars, ident, oaVars, callVars, parseVars, thr>>

BackNext ==
    \/ \E e \in Endpoints, u \in Users \cup {3} : OAuthStart(e, u)
    \/ \E w \in Workers, e \in Endpoints, state \in {0} \cup StateIds :
          CallbackArrive(w, e, state)
    \/ \E w \in Workers, out \in ExchangeOutcomes : CallbackRedeem(w, out)

\* ---------------------------------------------------------- specifications

vars == <<sessVars, tokVars, ident, auxVars>>

\* the session machine's variables while another machine runs
SessQuiet ==
    /\ ctor_provider = "gmail" /\ provider = "gmail" /\ use_oauth = TRUE
    /\ imap = None /\ conns = <<>>
    /\ locked = FALSE /\ waiters = <<>>
    /\ pc = [t \in Tasks |-> "idle"] /\ op = [t \in Tasks |-> "none"]
    /\ last = NoFrame /\ everClosed = FALSE

\* the token machine's variables while another machine runs
TokQuiet ==
    /\ environ = <<>> /\ envFile = <<>> /\ db = <<>> /\ tlast = NoCall

IdentQuiet == ident = NoIdent

OAuthQuiet == email = <<>> /\ credential = <<>> /\ auth_string = <<>>

CallerQuiet == phase = "none" /\ clients = <<>> /\ task = <<>> /\ fetch_limit = 0

ParserQuiet == raw_bytes = <<>> /\ parsed = NotParsed

ThreadsQuiet == thr = <<>>

BackQuiet ==
    /\ STATE_STORE = <<>> /\ issued = <<>> /\ exchanges = <<>> /\ accounts = <<>>
    /\ workers = <<>> /\ reply = NoReply

AuxQuiet == OAuthQuiet /\ CallerQuiet /\ ParserQuiet /\ ThreadsQuiet /\ BackQuiet

Init == SessInit /\ TokQuiet /\ IdentQuiet /\ AuxQuiet

Next == SessNext

Spec == Init /\ [][Next]_vars

InitToken == TokInit /\ SessQuiet /\ IdentQuiet /\ AuxQuiet

NextToken == TokNext

SpecToken == InitToken /\ [][NextToken]_vars

InitIdentity == IdentInit /\ SessQuiet /\ TokQuiet /\ AuxQuiet

NextIdentity == IdentNext

SpecIdentity == InitIdentity /\ [][NextIdentity]_vars

\* the session machine with the event loop's scheduling: a woken waiter is
\* resumed, a worker thread runs its helper to the end, and the coroutine
\* awaiting it is then resumed
Fairness ==
    \A t \in Tasks :
        /\ WF_vars(Wake(t))
        /\ WF_vars(RunConnect(t) \/ RunFetch(t) \/ RunClose(t))
        /\ WF_vars(Exit(t))

SpecFair == Init /\ [][Next]_vars /\ Fairness

InitOAuth ==
    /\ OAuthInit /\ SessQuiet /\ TokQuiet /\ IdentQuiet /\ CallerQuiet /\ ParserQuiet
    /\ ThreadsQuiet /\ BackQuiet

NextOAuth == OAuthNext

SpecOAuth == InitOAuth /\ [][NextOAuth]_vars

InitCaller ==
    /\ CallerInit /\ SessQuiet /\ TokQuiet /\ IdentQuiet /\ OAuthQuiet /\ ParserQuiet
    /\ ThreadsQuiet /\ BackQuiet

NextCaller == CallerNext

SpecCaller == InitCaller /\ [][NextCaller]_vars

InitParser ==
    /\ ParserInit /\ SessQuiet /\ TokQuiet /\ IdentQuiet /\ OAuthQuiet /\ CallerQuiet
    /\ ThreadsQuiet /\ BackQuiet

NextParser == ParserNext

SpecParser == InitParser /\ [][NextParser]_vars

InitThreads ==
    /\ ThreadsInit /\ SessQuiet /\ IdentQuiet
    /\ OAuthQuiet /\ CallerQuiet /\ ParserQuiet /\ BackQuiet

NextThreads == ThreadsNext

SpecThreads == InitThreads /\ [][NextThreads]_vars

InitBackend ==
    /\ BackInit /\ SessQuiet /\ IdentQuiet
    /\ OAuthQuiet /\ CallerQuiet /\ ParserQuiet /\ ThreadsQuiet

NextBackend == BackNext

SpecBackend == InitBackend /\ [][NextBackend]_vars

\* the core as a whole: a run is a run of the session or a run of the token
\* calls (environ is empty exactly in the runs of the session)
SessionRun == environ = <<>>

InitCore == Init \/ InitToken

NextCore ==
    \/ \E t \in Tasks :
          \/ \E o \in {"connect", "fetch", "close"} : SessionRun /\ Call(t, o)
          \/ SessionRun /\ Wake(t)
          \/ SessionRun /\ RunConnect(t)
          \/ SessionRun /\ RunFetch(t)
          \/ SessionRun /\ RunClose(t)
          \/ SessionRun /\ Exit(t)
    \/ ~SessionRun /\ RefreshGmail
    \/ ~SessionRun /\ RefreshOutlook
    \/ ~SessionRun /\ AccountToken

SpecCore == InitCore /\ [][NextCore]_vars

\* --------------------------------------------------------- token claims

\* the token endpoint answered the call with a success response
Success(c) ==
    c.requests = 1 /\ c.resp.transport /\ c.resp.status = 200 /\ c.resp.kind = "object"

\* ... whose refresh_token is present and differs from the one sent
Rotated(c) ==
    Success(c) /\ c.resp.refresh_token \notin {PyNone, "", c.rt}

\* C7: a refresh call triggers the rotation notification exactly once when
\* the success response carries a refresh_token that is present and differs
\* from the one sent, and otherwise never, leaving the stored credential
\* (environment, .env file, account table) as it was.
C7_RotationNotifiedOnce ==
    [][ tlast'.fn \in {"refresh", "account"} =>
          /\ Rotated(tlast') =>
               /\ tlast'.notified = 1
               /\ environ'[RefreshKey(tlast'.provider)] = tlast'.resp.refresh_token
          /\ ~Rotated(tlast') =>
               /\ tlast'.notified = 0
               /\ environ' = environ /\ envFile' = envFile /\ db' = db ]_vars

\* a refresh was answered with a rotated token, and another with the same token
C7_Witness ==
    /\ tlast.fn = "refresh" /\ Rotated(tlast) /\ tlast.notified = 1
    /\ environ["GMAIL_REFRESH_TOKEN"] # environ["OUTLOOK_REFRESH_TOKEN"]

\* C8: after get_access_token_for_account performed a refresh whose response
\* rotates the refresh token, the account's entry in the credential store
\* holds the new token (so the next refresh for the account sends it).
C8_RotationReachesStore ==
    (tlast.fn = "account" /\ Rotated(tlast) /\ tlast.outcome = "return") =>
        Decrypt(db[tlast.account].refresh_token_encrypted) = tlast.resp.refresh_token

\* the failures of section 4.1, read off the call's inputs
TransportFailure(c) == c.requests = 1 /\ ~c.resp.transport
BadStatus(c)        == c.requests = 1 /\ c.resp.transport /\ c.resp.status # 200
NoAccessToken(c)    == Success(c) /\ c.resp.access_token = PyNone
MissingConfig(c)    ==
    /\ c.provider \in {"gmail", "outlook"}
    /\ \E k \in RequiredConfig(c.provider) : k \notin DOMAIN environ

FailureCase(c) ==
    TransportFailure(c) \/ BadStatus(c) \/ NoAccessToken(c) \/ MissingConfig(c)

\* C9: on a transport failure, a non-success status, a success response
\* without access_token or a missing client configuration, the refresh for a
\* provider ends in an error and hands out no access token: the provider
\* functions return no token (and raise on a missing configuration when given
\* a refresh token), and get_access_token_for_account raises.
C9_RefreshFailsWithError ==
    (tlast.fn \in {"refresh", "account"} /\ FailureCase(tlast)) =>
        /\ ~(tlast.outcome = "return" /\ Truthy(tlast.value))
        /\ tlast.fn = "account" => tlast.outcome = "raise"
        /\ (tlast.fn = "refresh" /\ MissingConfig(tlast) /\ Truthy(tlast.rt))
              => tlast.outcome = "raise"

\* an account-level refresh met a non-success status whose body carries a token
C9_Witness ==
    /\ tlast.fn = "account" /\ BadStatus(tlast) /\ tlast.outcome = "raise"
    /\ Truthy(tlast.resp.access_token)

\* ------------------------------------------------------ identity claims

\* C10: identity resolution never raises: whatever the access token and the
\* outcome of the profile request or of the JWT decoding, get_gmail_email and
\* get_outlook_email_from_access_token return an email or the absent value.
C10_IdentityNeverRaises ==
    ident.fn \in {"gmail_email", "outlook_email"} => ident.outcome = "return"

\* ------------------------------------------------------- session claims

Count(seq, x) == Cardinality({i \in 1..Len(seq) : seq[i] = x})

\* the last n elements of seq
Trailing(seq, n) == SubSeq(seq, Len(seq) - n + 1, Len(seq))

\* C1: at no time are two operations of the session executing their
\* blocking helper (_connect_sync, _fetch_latest_sync, _logout_sync).
C1_HelpersExclusive ==
    \A t, u \in Tasks : (pc[t] = "running" /\ pc[u] = "running") => t = u

\* one operation is in its helper while another one was issued and waits
C1_Witness ==
    \E t, u \in Tasks : pc[t] = "running" /\ pc[u] = "waiting"

\* C2: the session owns at most one live connection: every connection it
\* has opened and not logged out is the one held in self._imap.
C2_AtMostOneLive ==
    \A c \in 1..Len(conns) : conns[c].open => c = imap

\* C3 (as stated): once close() has logged out a connected session, the
\* session is never Connected again.
C3_ClosedIsTerminal ==
    everClosed => imap = None

\* C3 (amended): close() leaves the session Disconnected, and a
\* Disconnected session becomes Connected only by the helper of a later
\* connect() or fetch_latest().
C3_ClosedUntilReconnect ==
    [][ /\ \A t \in Tasks :
             (pc[t] = "running" /\ op[t] = "close" /\ pc'[t] = "returned")
                => imap' = None
        /\ (imap = None /\ imap' # None) =>
             \E t \in Tasks : /\ pc[t] = "running" /\ pc'[t] = "returned"
                              /\ op[t] \in {"connect", "fetch"} ]_vars

\* a session that close() logged out is Connected again
C3_Witness ==
    everClosed /\ imap # None

\* C4: close() on a session that holds no connection sends no LOGOUT (no
\* command at all), raises nothing and leaves the session disconnected.
C4_CloseIdempotent ==
    (last.op = "close" /\ last.before = None) =>
        /\ last.cmds = <<>>
        /\ last.raised = "none"
        /\ imap = None

\* close() ran on a session whose previous close() failed in LOGOUT
C4_Witness ==
    /\ last.op = "close" /\ last.before = None
    /\ \E c \in 1..Len(conns) : conns[c].state = "LOGOUT" /\ conns[c].open

\* C5: for every limit >= 0 and every non-empty SEARCH ALL result s1..sk,
\* fetch_latest(limit) issues one FETCH whose id set is exactly the
\* trailing min(limit, k) sequence numbers.
C5_FetchesTrailingLimit ==
    (last.op = "fetch" /\ last.searched # <<>>) =>
        /\ Count(last.cmds, "FETCH") = 1
        /\ last.fetched = Trailing(last.searched, Min(last.limit, Len(last.searched)))

\* C6: when SEARCH ALL succeeds with no sequence numbers, fetch_latest(n)
\* returns the empty list, raises nothing and issues no FETCH.
C6_EmptyMailbox ==
    (last.op = "fetch" /\ last.search = "OK" /\ last.searched = <<>>) =>
        /\ last.ret = <<>>
        /\ last.raised = "none"
        /\ Count(last.cmds, "FETCH") = 0

\* fetch_latest(n), n > 0, ran against an empty mailbox
C6_Witness ==
    /\ last.op = "fetch" /\ last.search = "OK" /\ last.searched = <<>>
    /\ last.limit > 0

\* C17: fetch_latest() raises, and returns no list, whenever SEARCH or
\* FETCH reports a status other than OK; after a non-OK SEARCH no FETCH
\* is issued.
C17_FetchFailsOnNonOK ==
    last.op = "fetch" =>
        /\ (last.search \notin {"", "OK"}) =>
              /\ last.raised # "none"
              /\ last.ret = <<>>
              /\ Count(last.cmds, "FETCH") = 0
        /\ (last.fstatus \notin {"", "OK"}) =>
              /\ last.raised # "none"
              /\ last.ret = <<>>

\* fetch_latest() got OK for SEARCH and NO for FETCH
C17_Witness ==
    /\ last.op = "fetch" /\ last.search = "OK" /\ last.fstatus = "NO"
    /\ last.raised = "fetch failed"

\* the provider names that are gmail or outlook up to letter case
IsKnownProvider(p) ==
    p \in {"gmail", "Gmail", "GMAIL", "outlook", "Outlook", "OUTLOOK"}

\* the helper made a connection attempt that met a transport failure
TransportFailed(f) == f.cout # NoConnect /\ ~f.cout.tls

\* the helper made a connection attempt whose credentials were rejected
AuthRejected(f) == f.cout # NoConnect /\ f.cout.tls /\ ~f.cout.auth

\* C18: connect() raises on an unsupported provider, on a transport
\* failure and on an authentication rejection; for a provider that is not
\* gmail or outlook up to letter case nothing is opened or sent, a provider
\* that is one of them is never rejected as unsupported, and a failed
\* connect() on a Disconnected session leaves self._imap unset.
C18_ConnectFails ==
    last.op = "connect" =>
        /\ (~IsKnownProvider(ctor_provider)) =>
              /\ last.raised = "unsupported"
              /\ last.cmds = <<>>
              /\ conns = <<>>
        /\ IsKnownProvider(ctor_provider) => last.raised # "unsupported"
        /\ (TransportFailed(last) \/ AuthRejected(last)) => last.raised # "none"
        /\ (last.raised # "none" /\ last.before = None) => imap = None

\* connect() on a session constructed with "Outlook" was rejected by the server
C18_Witness ==
    /\ last.op = "connect" /\ ctor_provider = "Outlook"
    /\ AuthRejected(last) /\ last.raised = "auth" /\ imap = None

\* C19: no retries: a refresh call sends at most one request to the token
\* endpoint, connect() opens at most one connection and sends at most one
\* authentication command, and fetch_latest() sends at most one SEARCH and
\* at most one FETCH (and connects at most once), whatever the outcome.
C19_NoRetries ==
    /\ tlast.requests <= 1
    /\ last.op \in {"connect", "fetch"} =>
          /\ Count(last.cmds, "OPEN") <= 1
          /\ Count(last.cmds, "AUTHENTICATE") + Count(last.cmds, "LOGIN") <= 1
    /\ last.op = "fetch" =>
          /\ Count(last.cmds, "SEARCH") <= 1
          /\ Count(last.cmds, "FETCH") <= 1

\* a refresh call whose one request was answered with status 500
C19_Witness ==
    /\ tlast.fn = "refresh" /\ tlast.requests = 1
    /\ tlast.resp.transport /\ tlast.resp.status = 500
    /\ tlast.value = PyNone

\* C20: the lock is held only while an operation is between acquiring it
\* and leaving its async with block; when an operation leaves (returning
\* or raising) the lock is free; and, each helper terminating, every
\* operation that waits for the lock eventually holds it.
C20_LockReleased ==
    /\ [](locked => \E t \in Tasks : pc[t] \in {"running", "returned"})
    /\ [][\A t \in Tasks : (pc[t] = "returned" /\ pc'[t] = "idle") => ~locked']_vars
    /\ \A t \in Tasks : (pc[t] = "waiting") ~> (pc[t] = "running")

\* an operation waits for the lock while the helper of another one has raised
C20_Witness ==
    \E t, u \in Tasks :
        /\ pc[t] = "waiting" /\ pc[u] = "returned"
        /\ last.raised \in {"unsupported", "auth", "search failed", "fetch failed", "logout"}

\* C13: the XOAUTH2 initial response is the bytes of "user=", the address,
\* 0x01, "auth=Bearer ", the token, 0x01, 0x01, and nothing else.
C13_XOAuth2Bytes ==
    auth_string # <<>> =>
        auth_string = <<117, 115, 101, 114, 61>> \o Utf8Encode(email) \o <<1>>
                      \o <<97, 117, 116, 104, 61, 66, 101, 97, 114, 101, 114, 32>>
                      \o Utf8Encode(credential) \o <<1, 1>>

\* the string built for "u@x.com" and "T"
C13_Witness ==
    /\ email = SampleEmail /\ credential = SampleToken
    /\ auth_string = <<117, 115, 101, 114, 61, 117, 64, 120, 46, 99, 111, 109, 1,
                        97, 117, 116, 104, 61, 66, 101, 97, 114, 101, 114, 32, 84, 1, 1>>

\* C15: an operation issued on a session whose own lock is free starts at
\* once, whatever other sessions are doing; the helper of a started
\* operation can always run; and a step of one session's operation leaves
\* the connection state and the lock of every other session as they were.
C15_SessionsIndependent ==
    /\ [][\A c \in DOMAIN task :
            (task[c].pc = "idle" /\ task'[c].pc = "waiting") => clients[c].locked]_vars
    /\ [](\A c \in DOMAIN task :
            task[c].pc = "running" =>
                ENABLED (HelperConnect(c) \/ HelperFetch(c) \/ HelperClose(c)))
    /\ [][\A c \in DOMAIN clients :
            clients'[c] # clients[c] =>
                /\ task'[c].pc # task[c].pc
                /\ \A d \in DOMAIN clients \ {c} : clients'[d] = clients[d]]_vars

\* two sessions are in the middle of an operation at the same time
C15_Witness ==
    \E c, d \in DOMAIN task :
        /\ c # d
        /\ task[c].pc = "running" /\ clients[c].locked
        /\ task[d].pc = "running" /\ clients[d].locked

\* C16: when the caller has ended and no operation is pending, close() has
\* been called on every session on which connect() succeeded.
C16_CloseAfterConnect ==
    (/\ phase \in {"done", "failed"}
     /\ \A c \in DOMAIN task : task[c].pc \notin {"running", "returned"}) =>
        \A c \in DOMAIN task : task[c].connected => task[c].closeCalled

\* C11: in every record parse returns, subject, from, to and date are
\* strings, never None, and are "" when the header is absent; text and html
\* are strings; attachments is a list.
C11_FieldsNeverNull ==
    (parsed.done /\ parsed.raised = "none") =>
        /\ NoneStr \notin {parsed.subject, parsed.from, parsed.to, parsed.date,
                            parsed.text, parsed.html}
        /\ ~raw_bytes.headers.subject.present => parsed.subject = <<>>
        /\ ~raw_bytes.headers.from.present => parsed.from = <<>>
        /\ ~raw_bytes.headers.to.present => parsed.to = <<>>
        /\ raw_bytes.headers.date = NoneStr => parsed.date = <<>>

\* a header value with an encoded word whose charset Python cannot decode
Undecodable(v) ==
    v.present /\ \E i \in 1..Len(v.words) : v.words[i].charset \notin KnownCharsets \cup {""}

\* the message with its undecodable Subject and From left out
Readable(m) ==
    [m EXCEPT !.headers.subject = IF Undecodable(@) THEN Absent ELSE @,
              !.headers.from    = IF Undecodable(@) THEN Absent ELSE @]

\* C12: for a message with an undecodable charset in Subject or From,
\* parse returns a record, whose other headers and whose text, html and
\* attachments are those of the same message without that header.
C12_BadCharsetDoesNotAbort ==
    (/\ parsed.done
     /\ Undecodable(raw_bytes.headers.subject) \/ Undecodable(raw_bytes.headers.from)) =>
        LET good == Parse(Readable(raw_bytes))
        IN  /\ parsed.raised = "none"
            /\ ~Undecodable(raw_bytes.headers.subject) => parsed.subject = good.subject
            /\ ~Undecodable(raw_bytes.headers.from) => parsed.from = good.from
            /\ parsed.to = good.to /\ parsed.date = good.date
            /\ parsed.text = good.text /\ parsed.html = good.html
            /\ parsed.attachments = good.attachments

\* what a tree contributes: its root's own share, then its subtrees' in order
RECURSIVE Expected(_), ExpectedAll(_)
Expected(part) ==
    LET bytes == GetPayload(part).bytes
        kids  == ExpectedAll(part.parts)
        body(ct) == IF part.ctype = ct /\ ~MentionsAttachment(part.disp)
                    THEN Utf8DecodeIgnore(bytes) ELSE <<>>
    IN  [text |-> body("text/plain") \o kids.text,
         html |-> body("text/html") \o kids.html,
         contents |-> (IF part.disp = "attachment" THEN <<bytes>> ELSE <<>>)
                      \o kids.contents]

ExpectedAll(ps) ==
    IF ps = <<>> THEN [text |-> <<>>, html |-> <<>>, contents |-> <<>>]
    ELSE LET h == Expected(Head(ps))
             t == ExpectedAll(Tail(ps))
         IN  [text |-> h.text \o t.text, html |-> h.html \o t.html,
              contents |-> h.contents \o t.contents]

\* C14: text is the concatenation, in depth-first order and with repeats,
\* of the text/plain parts whose disposition does not mention attachment,
\* html the same for text/html, and attachments holds, in depth-first
\* order, the decoded bytes of exactly the nodes whose disposition is
\* attachment; no node adds to two outputs and no other node adds anything.
C14_TraversalOutputs ==
    (parsed.done /\ parsed.raised = "none") =>
        LET e == Expected(raw_bytes.body)
        IN  /\ parsed.text = e.text
            /\ parsed.html = e.html
            /\ [i \in 1..Len(parsed.attachments) |-> parsed.attachments[i].content]
                   = e.contents

\* one text/plain part "Hello" and one attachment a.txt with bytes xyz,
\* sent in base64
C14_Witness ==
    /\ raw_bytes.body =
          Container("None",
              <<Part("text/plain", "None", Absent, "7bit", Hello),
                Part("application/pdf", "attachment", NameA, "base64", XyzB64)>>)
    /\ parsed.done /\ parsed.text = Hello /\ parsed.html = <<>>
    /\ parsed.attachments =
          <<[filename |-> <<97, 46, 116, 120, 116>>, size_kb |-> 0, content |-> Xyz]>>


\* C22: whenever connect() returns successfully, or fetch_latest() gets past
\* its auto-connect, the session holds a connection on which INBOX is
\* selected; a session is never recorded as connected (self._imap set) when
\* SELECT INBOX did not succeed.
C22_ConnectedMeansSelected ==
    /\ (last.op = "connect" /\ last.raised = "none") =>
          /\ imap # None
          /\ conns[imap].state = "SELECTED"
    /\ (last.op = "fetch" /\ last.before = None /\ last.imap # None) =>
          last.conns[last.imap].state = "SELECTED"
    /\ imap # None => conns[imap].state = "SELECTED"


\* the command the session authenticates with
AuthCommand(f) == IF f.use_oauth THEN "AUTHENTICATE" ELSE "LOGIN"

\* C23: fetch_latest() on a session that holds no connection first runs
\* the connect sequence (open, authenticate, select) and only then sends
\* SEARCH; on a session that holds a connection it opens no connection and
\* sends no authentication and no SELECT.
C23_AutoConnectWhenNeeded ==
    last.op = "fetch" =>
        /\ (last.before = None /\ IsKnownProvider(ctor_provider)) =>
              /\ last.cmds # <<>> /\ last.cmds[1] = "OPEN"
              /\ last.imap # None =>
                    SubSeq(last.cmds, 1, 3) = <<"OPEN", AuthCommand(last), "SELECT">>
              /\ Count(last.cmds, "SEARCH") > 0 =>
                    /\ SubSeq(last.cmds, 1, 4)
                          = <<"OPEN", AuthCommand(last), "SELECT", "SEARCH">>
                    /\ Count(last.cmds, "SEARCH") = 1
        /\ last.before # None =>
              /\ Count(last.cmds, "OPEN") = 0
              /\ Count(last.cmds, "AUTHENTICATE") = 0
              /\ Count(last.cmds, "LOGIN") = 0
              /\ Count(last.cmds, "SELECT") = 0
              /\ last.imap = last.before

\* fetch_latest() connected by itself and then searched and fetched
C23_Witness ==
    /\ last.op = "fetch" /\ last.before = None /\ last.raised = "none"
    /\ last.cmds = <<"OPEN", AuthCommand(last), "SELECT", "SEARCH", "FETCH">>


\* the claim has a value in the payload (a key that is missing, null or
\* empty carries no value)
Present(claims, k) == claims[k] # PyNone /\ claims[k] # ""

\* C25: for an Outlook access token whose payload segment decodes to a
\* claims object, get_outlook_email_from_access_token returns the first
\* present claim in the order preferred_username, email, upn, unique_name,
\* userPrincipalName (a later one only when all earlier ones are absent) and
\* the absent value when none is present, whatever the signature segment is.
C25_ClaimPriority ==
    (/\ ident.fn = "outlook_email"
     /\ Len(ident.token) >= 2
     /\ ident.token[2].kind = "object") =>
        LET cs == ident.token[2].claims
        IN  /\ ident.outcome = "return"
            /\ ident.value =
                 (IF Present(cs, "preferred_username") THEN cs["preferred_username"]
                  ELSE IF Present(cs, "email") THEN cs["email"]
                  ELSE IF Present(cs, "upn") THEN cs["upn"]
                  ELSE IF Present(cs, "unique_name") THEN cs["unique_name"]
                  ELSE IF Present(cs, "userPrincipalName") THEN cs["userPrincipalName"]
                  ELSE PyNone)

\* a token with a broken signature segment and the claims email and upn:
\* email is returned
C25_Witness ==
    /\ ident.fn = "outlook_email"
    /\ Len(ident.token) = 3
    /\ ident.token[3].kind = "badb64"
    /\ ident.token[2].kind = "object"
    /\ ident.token[2].claims["preferred_username"] = PyNone
    /\ ident.token[2].claims["email"] = "email"
    /\ ident.token[2].claims["upn"] = "upn"
    /\ ident.value = "email"


\* the text "attachment"
AttachmentName == <<97, 116, 116, 97, 99, 104, 109, 101, 110, 116>>

\* the node is recorded as an attachment
IsAttachment(part) == part.disp = "attachment"

\* C24: a part whose disposition is attachment and that carries no
\* filename is recorded with the filename "attachment"; when a filename is
\* present the recorded filename is its encoded-word decoding.
C24_AttachmentFilename ==
    (parsed.done /\ parsed.raised = "none") =>
        LET atts == SelectSeq(Walk(raw_bytes.body), IsAttachment)
        IN  /\ Len(parsed.attachments) = Len(atts)
            /\ \A i \in 1..Len(atts) :
                  parsed.attachments[i].filename =
                     (IF atts[i].filename.present
                      THEN DecodeMime(atts[i].filename).s
                      ELSE AttachmentName)


\* the text the parts of type ct that are not marked attachment give, in
\* the order of ps, when each is decoded with the charset it declares
RECURSIVE DeclaredText(_, _)
DeclaredText(ps, ct) ==
    IF ps = <<>> THEN <<>>
    ELSE LET part == Head(ps)
             own  == IF /\ part.ctype = ct
                        /\ ~MentionsAttachment(part.disp)
                        /\ ~GetPayload(part).none
                     THEN DecodeBytes(GetPayload(part).bytes, part.charset).s
                     ELSE <<>>
         IN  own \o DeclaredText(Tail(ps), ct)

\* C26: every text/plain or text/html part that is not marked attachment
\* is decoded with the charset it declares, with UTF-8 only when it declares
\* none: a part declaring ISO-8859-1 contributes the ISO-8859-1 decoding of
\* its bytes.
C26_DeclaredCharsetUsed ==
    (parsed.done /\ parsed.raised = "none") =>
        /\ parsed.text = DeclaredText(Walk(raw_bytes.body), "text/plain")
        /\ parsed.html = DeclaredText(Walk(raw_bytes.body), "text/html")


\* C21: two refresh calls for different credentials that run at once and
\* both rotate their token leave both rotated values in the process
\* environment and in the env file, whatever the interleaving.
C21_BothRotationsPersisted ==
    (\A p \in RefreshThreads : thr[p].pc = "done" /\ thr[p].new # PyNone) =>
        \A p \in RefreshThreads :
            /\ GetEnv(environ, RefreshKey(p)) = thr[p].new
            /\ \E i \in 1..Len(envFile) :
                  envFile[i] = [key |-> RefreshKey(p), value |-> thr[p].new]


\* the state is no longer (or was never) redeemable
NotRedeemable(state) == state \notin DOMAIN STATE_STORE

\* one step of the backend, as C27 requires it
StateStep ==
    /\ \A st \in StateIds :
          /\ exchanges'[st] <= 1
          /\ exchanges'[st] # exchanges[st] =>
                /\ st \in DOMAIN issued
                /\ st \in DOMAIN STATE_STORE /\ st \notin DOMAIN STATE_STORE'
          /\ (st \in DOMAIN issued /\ NotRedeemable(st)) => st \notin DOMAIN STATE_STORE'
    /\ accounts' # accounts =>
          \E st \in StateIds, prov \in {"gmail", "outlook"} :
             /\ exchanges'[st] = exchanges[st] + 1
             /\ accounts' = Append(accounts, [user_id |-> issued[st],
                                              provider |-> prov, state |-> st])
    /\ \A w \in Workers, e \in Endpoints, st \in {0} \cup StateIds :
          (NotRedeemable(st) /\ CallbackArrive(w, e, st)) =>
              /\ reply' = [handler |-> "callback", state |-> st, status |-> 400]
              /\ UNCHANGED <<STATE_STORE, exchanges, accounts>>

\* C27: a state issued by a start endpoint is redeemed by at most one
\* callback: a callback whose state was never issued or is already consumed
\* is answered with status 400, makes no token exchange and creates no
\* account, no state gets a second token exchange, and every account a
\* callback creates is for the user_id the state was issued for.
C27_StateRedeemedOnce == [][StateStep]_vars

\* a state was redeemed, its account was created for the user it was
\* issued for, and a second callback with the same state was answered 400
C27_Witness ==
    \E st \in StateIds :
        /\ exchanges[st] = 1
        /\ \E i \in 1..Len(accounts) :
              accounts[i].state = st /\ accounts[i].user_id = issued[st]
        /\ reply = [handler |-> "callback", state |-> st, status |-> 400]

====
